---- MODULE Spec2Model ----
(***************************************************************************)
(* Model of deepforest/evaluate.py: evaluate_image, compute_class_recall   *)
(* and evaluate.  Tables (pandas DataFrames) are sequences of records, one *)
(* record per row.  Box coordinates are not modelled: the only consumer of *)
(* the geometry is IoU.compute_IoU, whose answer is drawn from the set of  *)
(* pairings its contract allows.  IoU values and thresholds are integers   *)
(* in tenths (0.4 is 4).  A float result n/d is the pair <<n, d>>, and the *)
(* float nan is <<0, 0>>.  Null cells are the sentinels NoId, None and      *)
(* NaNPath.  Left out: the score column, check_file (a table is a sequence *)
(* of rows with the required columns), the savedir overlay of              *)
(* evaluate_image, and its ValueError for several image paths, which the   *)
(* per-image filter of evaluate (lines 115-116) never triggers.            *)
(***************************************************************************)
EXTENDS Integers, Sequences, FiniteSets, TLC

VARIABLES predictions, ground_df, iou_threshold, average,
          pc, todo, frames, box_recalls, box_precisions, ret

vars == <<predictions, ground_df, iou_threshold, average,
          pc, todo, frames, box_recalls, box_precisions, ret>>

\* ------------------------------------------------------- program constants
FixedIoU == 4
DefaultIoUThreshold == 4

\* ---------------------------------------------------------------- bounds
MaxTruth == 2
MaxPred == 2
\* image paths and labels, each in the order groupby sorts its keys
Images == <<"A", "B">>
Labels == <<"Bird", "Tree">>
\* IoU of a truth box paired with a prediction, and the thresholds passed in
IoULevels == {4, 6}
Thresholds == {-1, 0, DefaultIoUThreshold, 6}

\* --------------------------------------------------------- null sentinels
NoId == -1
None == "None"
NaNPath == "NaN"

\* ------------------------------------------------------------ float values
Zero == <<0, 1>>
NaN == <<0, 0>>

Range(s) == {s[i] : i \in DOMAIN s}

RECURSIVE ProdDen(_)
ProdDen(s) == IF s = <<>> THEN 1 ELSE Head(s)[2] * ProdDen(Tail(s))

RECURSIVE SumScaled(_, _)
SumScaled(s, D) ==
  IF s = <<>> THEN 0
  ELSE (Head(s)[1] * (D \div Head(s)[2])) + SumScaled(Tail(s), D)

\* np.mean of a list of floats; nan (with a warning, no exception) when empty
Mean(s) ==
  IF s = <<>> THEN NaN
  ELSE LET D == ProdDen(s) IN <<SumScaled(s, D), Len(s) * D>>

\* try: n / d  except: 0
TryDivide(n, d) == IF d = 0 THEN Zero ELSE <<n, d>>

\* ------------------------------------------------------------ table helpers
Count(s, P(_)) == Len(SelectSeq(s, P))

RECURSIVE Flatten(_)
Flatten(fs) == IF fs = <<>> THEN <<>> ELSE Head(fs) \o Flatten(Tail(fs))

\* positions (0-based, as pandas index values) of the rows of df of one image
IndexOf(df, image_path) ==
  SelectSeq([i \in 1..Len(df) |-> i - 1],
            LAMBDA i : df[i + 1].image_path = image_path)

\* df[df["image_path"] == image_path].reset_index(drop=True)
RowsOf(df, image_path) == SelectSeq(df, LAMBDA r : r.image_path = image_path)

\* ground_df.groupby("image_path"): the keys, sorted
GroupKeys(df) ==
  SelectSeq(Images, LAMBDA p : \E i \in DOMAIN df : df[i].image_path = p)

\* ------------------------------------------- IoU.compute_IoU (the matcher)
\* One row per truth rectangle, in truth order; a truth row is paired with no
\* prediction (IoU 0) or with one prediction id; no prediction id is used twice.
Pairings(m) ==
  {[prediction_id |-> NoId, IoU |-> 0]} \cup
  {[prediction_id |-> j, IoU |-> v] : j \in 0..(m - 1), v \in IoULevels}

compute_IoU(n, m) ==
  {f \in [1..n -> Pairings(m)] :
     \A a, b \in 1..n :
        (a # b /\ f[a].prediction_id # NoId) =>
           f[a].prediction_id # f[b].prediction_id}

\* ------------------------------------------------------------ evaluate_image
\* lines 45-50: the matcher's rows with the two label columns attached
evaluate_image(image_predictions, group, matched) ==
  [i \in 1..Len(group) |->
     [truth_id        |-> i - 1,
      prediction_id   |-> matched[i].prediction_id,
      IoU             |-> matched[i].IoU,
      predicted_label |-> IF matched[i].prediction_id # NoId
                          THEN image_predictions[matched[i].prediction_id + 1].label
                          ELSE None,
      true_label      |-> group[i].label]]

\* ------------------------------------------------------ compute_class_recall
\* line 66: results.loc[results["match"]==1]; None == 1 is False
Matched(results) == SelectSeq(results, LAMBDA r : r.match = "True")

\* variant: counts the matched rows predicted as the class, whatever their truth
LabelCorrect_predicted(rows, name) ==
  Count(rows, LAMBDA r : r.predicted_label = name)

\* lines 73, 78: sum(group.true_label == group.predicted_label), group being the
\* matched rows of true label name
LabelCorrect(rows, name) ==
  Count(rows, LAMBDA r : r.true_label = name /\ r.predicted_label = r.true_label)

\* variant: the denominator is taken from the matched subset only
ClassRecallOf_matched(results, name) ==
  <<LabelCorrect(Matched(results), name),
    Count(Matched(results), LAMBDA r : r.true_label = name)>>

\* line 73
ClassRecallOf(results, name) ==
  <<LabelCorrect(Matched(results), name),
    Count(results, LAMBDA r : r.true_label = name)>>

\* lines 74-78
ClassPrecisionOf(results, preds, name) ==
  LET number_of_predictions == Count(preds, LAMBDA p : p.label = name)
  IN  IF number_of_predictions = 0 THEN <<0, 1>>
      ELSE <<LabelCorrect(Matched(results), name), number_of_predictions>>

\* line 79
ClassSizeOf(results, name) ==
  Count(Matched(results), LAMBDA r : r.true_label = name)

\* lines 61-88; groupby("true_label") yields the labels in sorted order
compute_class_recall(results, preds) ==
  IF Matched(results) = <<>>
  THEN [none |-> TRUE, table |-> <<>>]
  ELSE LET names == SelectSeq(Labels, LAMBDA c :
                       \E i \in DOMAIN results :
                          results[i].match = "True" /\ results[i].true_label = c)
       IN  [none |-> FALSE,
            table |-> [k \in 1..Len(names) |->
                         [label     |-> names[k],
                          recall    |-> ClassRecallOf(results, names[k]),
                          precision |-> ClassPrecisionOf(results, preds, names[k]),
                          size      |-> ClassSizeOf(results, names[k])]]]

\* variant: a single row for the image, whatever its number of truth boxes
EmptyFrame_single(df, image_path) ==
  LET idx == IndexOf(df, image_path)
  IN  [i \in 1..1 |->
         [truth_id        |-> idx[i],
          prediction_id   |-> NoId,
          IoU             |-> 0,
          predicted_label |-> None,
          match           |-> None,
          true_label      |-> df[idx[i] + 1].label]]

\* ------------------------------------------------------------------ evaluate
\* lines 120-128: the frame built for an image without predictions
EmptyFrame(df, image_path) ==
  LET idx == IndexOf(df, image_path)
  IN  [i \in 1..Len(idx) |->
         [truth_id        |-> idx[i],
          prediction_id   |-> NoId,
          IoU             |-> 0,
          predicted_label |-> None,
          match           |-> None,
          true_label      |-> df[idx[i] + 1].label]]

\* variant: >= in place of >
Stamp_ge(IoU, threshold) == IF IoU >= threshold THEN "True" ELSE "False"

\* line 141
Stamp(IoU, threshold) == IF IoU > threshold THEN "True" ELSE "False"

\* lines 140-141: the two columns added to the frame evaluate_image returned
ImageFrame(result, image_path, threshold) ==
  [i \in 1..Len(result) |->
     [truth_id        |-> result[i].truth_id,
      prediction_id   |-> result[i].prediction_id,
      IoU             |-> result[i].IoU,
      predicted_label |-> result[i].predicted_label,
      true_label      |-> result[i].true_label,
      image_path      |-> image_path,
      match           |-> Stamp(result[i].IoU, threshold)]]

\* sum(result["match"]) over a frame of booleans
TruePositive(frame) == Count(frame, LAMBDA r : r.match = "True")

\* lines 143-144
ImageRecall(frame) == <<TruePositive(frame), Len(frame)>>

\* variant: divides by the number of truth rows, as the recall does
ImagePrecision_rows(frame, image_predictions) ==
  <<TruePositive(frame), Len(frame)>>

ImagePrecision(frame, image_predictions) ==
  <<TruePositive(frame), Len(image_predictions)>>

\* line 150: pd.concat; a column some frame lacks is filled with NaN there
Concat(fs) ==
  LET rows == Flatten(fs)
      hasPath == \E i \in DOMAIN rows : "image_path" \in DOMAIN rows[i]
  IN  [i \in DOMAIN rows |->
         IF hasPath /\ "image_path" \notin DOMAIN rows[i]
         THEN [truth_id        |-> rows[i].truth_id,
               prediction_id   |-> rows[i].prediction_id,
               IoU             |-> rows[i].IoU,
               predicted_label |-> rows[i].predicted_label,
               true_label      |-> rows[i].true_label,
               image_path      |-> NaNPath,
               match           |-> rows[i].match]
         ELSE rows[i]]

\* sum(results["match"]) raises TypeError at the first None it adds
SumRaises(results) == \E i \in DOMAIN results : results[i].match = None

\* lines 151-154
MicroPrecision(results, preds) ==
  IF SumRaises(results) THEN Zero
  ELSE TryDivide(TruePositive(results), Len(preds))

\* lines 155-158
MicroRecall(results) ==
  IF SumRaises(results) THEN Zero
  ELSE TryDivide(TruePositive(results), Len(results))

\* lines 159-161
BoxPrecision(results, preds, avg, precisions) ==
  IF avg THEN Mean(precisions) ELSE MicroPrecision(results, preds)

BoxRecall(results, avg, recalls) ==
  IF avg THEN Mean(recalls) ELSE MicroRecall(results)

\* variant: counts the rows matched at the caller's threshold
OverallTP_match(results) ==
  Count(results, LAMBDA r : r.match = "True" /\ r.predicted_label = r.true_label)

\* lines 164-166
OverallTP(results) ==
  Count(results, LAMBDA r : r.IoU > FixedIoU /\ r.predicted_label = r.true_label)

\* lines 167, 169-172
OverallPrecision(results, preds) ==
  LET TP == OverallTP(results)
      FP == Len(preds) - TP
  IN  TryDivide(TP, TP + FP)

\* lines 168, 173-176
OverallRecall(results) ==
  LET TP == OverallTP(results)
      FN == Len(results) - TP
  IN  TryDivide(TP, TP + FN)

\* ------------------------------------------------------------------- state
Rows == {[image_path |-> Images[i], label |-> Labels[j]] :
           i \in DOMAIN Images, j \in DOMAIN Labels}

Tables(max) == UNION {[1..n -> Rows] : n \in 0..max}

NoResult ==
  [results |-> <<>>, box_precision |-> NaN, box_recall |-> NaN,
   class_recall |-> [none |-> TRUE, table |-> <<>>],
   overall_precision |-> NaN, overall_recall |-> NaN]

Init ==
  /\ predictions \in Tables(MaxPred)
  /\ ground_df \in Tables(MaxTruth)
  /\ iou_threshold \in Thresholds
  /\ average \in BOOLEAN
  /\ pc = "loop"
  /\ todo = GroupKeys(ground_df)
  /\ frames = <<>>
  /\ box_recalls = <<>>
  /\ box_precisions = <<>>
  /\ ret = NoResult

inputs == <<predictions, ground_df, iou_threshold, average>>

\* lines 113-132: one turn of the loop, for an image without predictions
GroupEmpty ==
  /\ pc = "loop"
  /\ todo # <<>>
  /\ RowsOf(predictions, Head(todo)) = <<>>
  /\ frames' = Append(frames, EmptyFrame(ground_df, Head(todo)))
  /\ box_recalls' = Append(box_recalls, Zero)
  /\ todo' = Tail(todo)
  /\ UNCHANGED <<inputs, pc, box_precisions, ret>>

\* lines 113-116, 133-148: one turn of the loop, for an image with predictions
GroupEval ==
  /\ pc = "loop"
  /\ todo # <<>>
  /\ LET image_path == Head(todo)
         image_predictions == RowsOf(predictions, image_path)
         group == RowsOf(ground_df, image_path)
     IN  /\ image_predictions # <<>>
         /\ \E matched \in compute_IoU(Len(group), Len(image_predictions)) :
              LET result == ImageFrame(
                              evaluate_image(image_predictions, group, matched),
                              image_path, iou_threshold)
              IN  /\ frames' = Append(frames, result)
                  /\ box_recalls' = Append(box_recalls, ImageRecall(result))
                  /\ box_precisions' =
                       Append(box_precisions,
                              ImagePrecision(result, image_predictions))
  /\ todo' = Tail(todo)
  /\ UNCHANGED <<inputs, pc, ret>>

\* line 150 with an empty list: pd.concat raises ValueError
ConcatRaises ==
  /\ pc = "loop"
  /\ todo = <<>>
  /\ frames = <<>>
  /\ pc' = "raised"
  /\ UNCHANGED <<inputs, todo, frames, box_recalls, box_precisions, ret>>

\* lines 150-187
Return ==
  /\ pc = "loop"
  /\ todo = <<>>
  /\ frames # <<>>
  /\ LET results == Concat(frames)
     IN  ret' = [results           |-> results,
                 box_precision     |-> BoxPrecision(results, predictions, average,
                                                    box_precisions),
                 box_recall        |-> BoxRecall(results, average, box_recalls),
                 class_recall      |-> compute_class_recall(results, predictions),
                 overall_precision |-> OverallPrecision(results, predictions),
                 overall_recall    |-> OverallRecall(results)]
  /\ pc' = "done"
  /\ UNCHANGED <<inputs, todo, frames, box_recalls, box_precisions>>

Next == GroupEmpty \/ GroupEval \/ ConcatRaises \/ Return

Spec == Init /\ [][Next]_vars

\* ------------------------------------------------------------------ properties
Done == pc = "done"

\* exact comparison of float results; nan compares equal to nothing
RatEq(a, b) == a[2] # 0 /\ b[2] # 0 /\ a[1] * b[2] = b[1] * a[2]
InUnit(r) == r[2] > 0 /\ 0 <= r[1] /\ r[1] <= r[2]
OrZero(n, d) == IF d = 0 THEN <<0, 1>> ELSE <<n, d>>

ResultRows == DOMAIN ret.results
AboveThreshold == {i \in ResultRows : ret.results[i].IoU > iou_threshold}
MatchTrue == {i \in ResultRows : ret.results[i].match = "True"}
Synthesized == {i \in ResultRows : ret.results[i].match = None}
NumPredictions == Len(predictions)
NumTruth == Len(ground_df)
TruthRowsOf(p) == {i \in DOMAIN ground_df : ground_df[i].image_path = p}
PredictionsOf(p) == {i \in DOMAIN predictions : predictions[i].image_path = p}
GroundImages == {p \in Range(Images) : TruthRowsOf(p) # {}}
PredictedImages == {p \in GroundImages : PredictionsOf(p) # {}}

\* for each row of the concatenated table, in order: the image of the group it
\* was produced from, and the row of ground_df it stands for
RowImages ==
  LET keys == GroupKeys(ground_df)
  IN  Flatten([k \in 1..Len(frames) |-> [j \in 1..Len(frames[k]) |-> keys[k]]])
TruthRows ==
  LET keys == GroupKeys(ground_df)
  IN  Flatten([k \in 1..Len(frames) |->
                 LET idx == IndexOf(ground_df, keys[k])
                 IN  [j \in 1..Len(frames[k]) |-> idx[j] + 1]])

\* C1: in micro mode box_precision is (rows with IoU > iou_threshold) / (all
\* predictions), 0 without predictions, and box_recall is the same count / (all
\* truth rows), for every mix of images with and without predictions.  Stated
\* for the thresholds >= 0, where a row of an image without predictions (IoU 0)
\* is never a matched row.
C1_MicroRatios ==
  (Done /\ ~average /\ iou_threshold >= 0) =>
     /\ RatEq(ret.box_precision,
              OrZero(Cardinality(AboveThreshold), NumPredictions))
     /\ RatEq(ret.box_recall, OrZero(Cardinality(AboveThreshold), NumTruth))

\* C2 as stated: for every iou_threshold, a returned row has match true iff its
\* IoU is strictly greater than iou_threshold.
C2_MatchIffAbove_AnyThreshold ==
  Done => \A i \in ResultRows :
             (ret.results[i].match = "True") <=> (ret.results[i].IoU > iou_threshold)

\* C2 amended: for every iou_threshold >= 0, a returned row has match true iff
\* its IoU is strictly greater than iou_threshold (rows synthesized for an image
\* without predictions included: IoU 0, match null).
C2_MatchIffAbove ==
  (Done /\ iou_threshold >= 0) =>
     \A i \in ResultRows :
        (ret.results[i].match = "True") <=> (ret.results[i].IoU > iou_threshold)

C2_Witness ==
  /\ Done /\ iou_threshold >= 0
  /\ Synthesized # {}
  /\ MatchTrue # {}

\* C3: the returned table has as many rows as ground_df, and every row of
\* ground_df is the truth box of exactly one row of the table, with its label,
\* whether its image has predictions or not.
C3_OneRowPerTruth ==
  Done =>
     LET tr == TruthRows
         im == RowImages
     IN  /\ Len(ret.results) = NumTruth
         /\ Len(tr) = Len(ret.results)
         /\ \A t \in DOMAIN ground_df :
               /\ Cardinality({i \in ResultRows : tr[i] = t}) = 1
               /\ \A i \in ResultRows :
                     tr[i] = t =>
                        /\ ret.results[i].true_label = ground_df[t].label
                        /\ ret.results[i].truth_id =
                             IF PredictionsOf(im[i]) = {}
                             THEN t - 1
                             ELSE Cardinality({u \in TruthRowsOf(im[i]) : u < t})

C3_Witness ==
  /\ Done
  /\ \E p \in GroundImages : PredictionsOf(p) = {} /\ Cardinality(TruthRowsOf(p)) = 2
  /\ Len(ret.results) = 2

\* C4: overall_precision and overall_recall count as true positives exactly the
\* rows with IoU > 0.4 and predicted_label = true_label; precision is TP / all
\* predictions, recall TP / all truth rows, 0 on a zero denominator; the caller's
\* iou_threshold does not enter.
LabelTP ==
  Cardinality({i \in ResultRows :
                 /\ ret.results[i].IoU > 4
                 /\ ret.results[i].predicted_label = ret.results[i].true_label})

C4_OverallFixedThreshold ==
  Done =>
     /\ RatEq(ret.overall_precision, OrZero(LabelTP, NumPredictions))
     /\ RatEq(ret.overall_recall, OrZero(LabelTP, NumTruth))

\* thresholds other than 0.4: one row matched at box level with IoU <= 0.4 and
\* the right label, one row matched with IoU > 0.4 and the wrong label
C4_Witness ==
  /\ Done /\ ~average /\ iou_threshold = 0
  /\ \E i \in MatchTrue :
        /\ ret.results[i].IoU <= FixedIoU
        /\ ret.results[i].predicted_label = ret.results[i].true_label
  /\ \E i \in MatchTrue :
        /\ ret.results[i].IoU > FixedIoU
        /\ ret.results[i].predicted_label # ret.results[i].true_label
  /\ LabelTP = 0
  /\ RatEq(ret.box_recall, <<1, 1>>)
  /\ RatEq(ret.overall_recall, <<0, 1>>)

\* C5: class_recall is null when no row has match true; otherwise it has one
\* entry per true_label among the rows with match true, with recall = (matched
\* rows with predicted = true = c) / (all rows with true label c), precision =
\* the same count / (predictions labelled c), 0 when there is none, and support
\* = matched rows with true label c.
ClassCorrect(c) ==
  Cardinality({i \in MatchTrue :
                 ret.results[i].true_label = c /\ ret.results[i].predicted_label = c})
ClassRows(c) == Cardinality({i \in ResultRows : ret.results[i].true_label = c})
ClassPredictions(c) ==
  Cardinality({i \in DOMAIN predictions : predictions[i].label = c})
ClassSupport(c) == Cardinality({i \in MatchTrue : ret.results[i].true_label = c})

C5_ClassRecall ==
  Done =>
     LET cr == ret.class_recall
     IN  IF MatchTrue = {}
         THEN cr.none
         ELSE /\ ~cr.none
              /\ {cr.table[k].label : k \in DOMAIN cr.table} =
                    {ret.results[i].true_label : i \in MatchTrue}
              /\ \A k, l \in DOMAIN cr.table :
                    cr.table[k].label = cr.table[l].label => k = l
              /\ \A k \in DOMAIN cr.table :
                    LET c == cr.table[k].label
                    IN  /\ RatEq(cr.table[k].recall, <<ClassCorrect(c), ClassRows(c)>>)
                        /\ RatEq(cr.table[k].precision,
                                 OrZero(ClassCorrect(c), ClassPredictions(c)))
                        /\ cr.table[k].size = ClassSupport(c)

\* a class with an unmatched row next to a matched one
C5_Witness ==
  /\ Done
  /\ ~ret.class_recall.none
  /\ \E k \in DOMAIN ret.class_recall.table :
        LET c == ret.class_recall.table[k].label
        IN  /\ ClassRows(c) = 2
            /\ ClassSupport(c) = 1
            /\ ClassCorrect(c) = 1
            /\ RatEq(ret.class_recall.table[k].recall, <<1, 2>>)

\* C6: in macro mode box_recall is the mean over the ground-truth images of
\* matched / truth count (0 for an image without predictions) and box_precision
\* the mean of matched / prediction count over the images that have predictions.
MatchedIn(p) ==
  LET im == RowImages IN Cardinality({i \in MatchTrue : im[i] = p})
AddRat(a, b) == <<(a[1] * b[2]) + (b[1] * a[2]), a[2] * b[2]>>

RecallOfImage(p) ==
  IF PredictionsOf(p) = {} THEN <<0, 1>>
  ELSE <<MatchedIn(p), Cardinality(TruthRowsOf(p))>>
PrecisionOfImage(p) == <<MatchedIn(p), Cardinality(PredictionsOf(p))>>

RECURSIVE SumRecall(_)
SumRecall(S) ==
  IF S = {} THEN <<0, 1>>
  ELSE LET p == CHOOSE q \in S : TRUE
       IN  AddRat(RecallOfImage(p), SumRecall(S \ {p}))

RECURSIVE SumPrecision(_)
SumPrecision(S) ==
  IF S = {} THEN <<0, 1>>
  ELSE LET p == CHOOSE q \in S : TRUE
       IN  AddRat(PrecisionOfImage(p), SumPrecision(S \ {p}))

MeanOf(total, n) == <<total[1], total[2] * n>>

C6_MacroMeans ==
  (Done /\ average) =>
     /\ RatEq(ret.box_recall,
              MeanOf(SumRecall(GroundImages), Cardinality(GroundImages)))
     /\ PredictedImages # {} =>
           RatEq(ret.box_precision,
                 MeanOf(SumPrecision(PredictedImages),
                        Cardinality(PredictedImages)))

\* one image without predictions, one with a single matched prediction among
\* its two
C6_Witness ==
  /\ Done /\ average
  /\ Cardinality(GroundImages) = 2
  /\ Cardinality(PredictedImages) = 1
  /\ RatEq(ret.box_recall, <<1, 2>>)
  /\ RatEq(ret.box_precision, <<1, 2>>)

\* C7: with no prediction in the dataset, evaluate returns box_precision 0,
\* box_recall 0 and a null class_recall, with average false and with average true.
C7_NoPredictions ==
  (Done /\ NumPredictions = 0) =>
     /\ ret.box_precision = <<0, 1>>
     /\ ret.box_recall = <<0, 1>>
     /\ ret.class_recall.none

\* C8: evaluate never aborts on an empty group or a zero denominator; with a
\* ground-truth table of zero rows it returns box_recall 0 and overall_recall 0.
C8_NeverAborts ==
  /\ pc # "raised"
  /\ (NumTruth = 0 /\ todo = <<>>) =>
        (Done => /\ ret.box_recall = <<0, 1>>
                 /\ ret.overall_recall = <<0, 1>>)

\* C9: every row of the returned table carries the image path of the
\* ground-truth image group it was produced from.
C9_RowsCarryImagePath ==
  Done => LET im == RowImages
          IN  \A i \in ResultRows :
                 /\ "image_path" \in DOMAIN ret.results[i]
                 /\ ret.results[i].image_path = im[i]

\* C10 as stated: in micro mode every returned ratio lies in [0, 1], for every
\* input and every iou_threshold.
AllRatiosInUnit ==
  /\ InUnit(ret.box_precision)
  /\ InUnit(ret.box_recall)
  /\ InUnit(ret.overall_precision)
  /\ InUnit(ret.overall_recall)
  /\ \A k \in DOMAIN ret.class_recall.table :
        /\ InUnit(ret.class_recall.table[k].recall)
        /\ InUnit(ret.class_recall.table[k].precision)
  /\ Cardinality(MatchTrue) <= NumPredictions
  /\ \A c \in Range(Labels) : ClassCorrect(c) <= ClassPredictions(c)

C10_RatiosInUnit_AnyThreshold == (Done /\ ~average) => AllRatiosInUnit

\* C10 amended: in micro mode, for every input and every iou_threshold >= 0,
\* every returned ratio lies in [0, 1], the matched count does not exceed the
\* number of predictions and the label-correct count of a class does not exceed
\* the number of predictions of that class.
C10_RatiosInUnit == (Done /\ ~average /\ iou_threshold >= 0) => AllRatiosInUnit

\* every prediction matched, two classes reported
C10_Witness ==
  /\ Done /\ ~average /\ iou_threshold >= 0
  /\ NumPredictions = 2
  /\ RatEq(ret.box_precision, <<1, 1>>)
  /\ RatEq(ret.overall_precision, <<1, 1>>)
  /\ Len(ret.class_recall.table) = 2

====
